---- MODULE Spec2Model ----
(***************************************************************************)
(* The accounts backend: one User table (email unique, password of at most  *)
(* 128 characters) and two request handlers, register_user and login_user. *)
(* Several requests may be in flight at once (one per server worker); a     *)
(* registration is two store accesses, the validation query of is_valid()   *)
(* and the INSERT of save(), and other requests may run between them.       *)
(***************************************************************************)
EXTENDS Naturals, Sequences, FiniteSets

\* Number of requests the server handles at the same time.
NumWorkers == 2

Workers == 1..NumWorkers

\* models.py:7  password = models.CharField(max_length=128)
MaxLength == 128

\* A string is a sequence of one-character strings.
Rep(c, n) == [i \in 1..n |-> c]

\* Request bodies: the email values a client sends.
EmailA == <<"a", "@", "b", ".", "c">>
EmailC == <<"c", "@", "d", ".", "e">>
EmailNoAt == <<"a", "b", ".", "c">>
EmailNoDot == <<"a", "@", "b">>
Emails == {EmailA, EmailC, EmailNoAt, EmailNoDot}

\* Request bodies: the password values a client sends (empty, short, of
\* exactly max_length characters, one character longer).
Passwords == {Rep("x", 0), Rep("x", 1), Rep("x", MaxLength),
              Rep("x", MaxLength + 1)}

\* EmailField's syntax check: exactly one "@", a non-empty user part, and a
\* domain part of at least two non-empty labels separated by ".".
IsValidEmail(e) ==
    \E k \in 1..Len(e) :
        /\ e[k] = "@"
        /\ \A j \in 1..Len(e) : e[j] = "@" => j = k
        /\ k > 1
        /\ k < Len(e)
        /\ e[k + 1] # "."
        /\ e[Len(e)] # "."
        /\ \E d \in (k + 2)..(Len(e) - 1) : e[d] = "."
        /\ \A d \in (k + 1)..(Len(e) - 1) : ~(e[d] = "." /\ e[d + 1] = ".")

\* The rows of the User table with the given email.
RowsWithEmail(rows, e) == {r \in rows : r.email = e}

EmailInStore(rows, e) == RowsWithEmail(rows, e) # {}

\* models.py:6  email = models.EmailField(unique=True): the errors the email
\* field reports at validation (syntax validator, uniqueness validator).
EmailFieldErrorsNoUnique(rows, e) ==
    IF IsValidEmail(e) THEN {} ELSE {<<"email", "invalid">>}

EmailFieldErrors(rows, e) ==
    (IF IsValidEmail(e) THEN {} ELSE {<<"email", "invalid">>})
    \cup (IF EmailInStore(rows, e) THEN {<<"email", "unique">>} ELSE {})

\* models.py:7  password = models.CharField(max_length=128): the errors the
\* password field reports at validation (blank is not allowed by default).
PasswordFieldErrorsOffByOne(p) ==
    (IF Len(p) = 0 THEN {<<"password", "blank">>} ELSE {})
    \cup (IF Len(p) >= MaxLength THEN {<<"password", "max_length">>} ELSE {})

PasswordFieldErrors(p) ==
    (IF Len(p) = 0 THEN {<<"password", "blank">>} ELSE {})
    \cup (IF Len(p) > MaxLength THEN {<<"password", "max_length">>} ELSE {})

\* UserSerializer(data=request.data).errors: the field errors of the User
\* model for the submitted data; is_valid() is "no errors".
SerializerErrors(rows, e, p) ==
    EmailFieldErrors(rows, e) \cup PasswordFieldErrors(p)

\* The primary key the table gives to the next row.
NextId(rows) == Cardinality(rows) + 1

\* The database's uniqueness constraint on email, checked at INSERT.
UniqueViolationNever(rows, e) == FALSE

UniqueViolation(rows, e) == EmailInStore(rows, e)

NewRow(rows, e, p) == [id |-> NextId(rows), email |-> e, password |-> p]

\* serializer.save(): INSERT of a new row; fails (IntegrityError) when the
\* uniqueness constraint is violated, and then leaves the table as it was.
SaveUpsert(rows, e, p) ==
    [ok |-> TRUE,
     rows |-> (rows \ RowsWithEmail(rows, e))
              \cup {NewRow(rows \ RowsWithEmail(rows, e), e, p)}]

SaveHashed(rows, e, p) ==
    IF UniqueViolation(rows, e)
    THEN [ok |-> FALSE, rows |-> rows]
    ELSE [ok |-> TRUE, rows |-> rows \cup {NewRow(rows, e, <<"#">> \o p)}]

SaveIgnoreDuplicate(rows, e, p) ==
    IF UniqueViolation(rows, e)
    THEN [ok |-> TRUE, rows |-> rows]
    ELSE [ok |-> TRUE, rows |-> rows \cup {NewRow(rows, e, p)}]

Save(rows, e, p) ==
    IF UniqueViolation(rows, e)
    THEN [ok |-> FALSE, rows |-> rows]
    ELSE [ok |-> TRUE, rows |-> rows \cup {NewRow(rows, e, p)}]

\* A response: which endpoint answered which request data, the HTTP status,
\* and the JSON body (its single key, its text, its validation errors).
Response(kind, e, p, status, key, text, errors) ==
    [kind |-> kind, email |-> e, password |-> p, status |-> status,
     body |-> [key |-> key, text |-> text, errors |-> errors]]

NoResponse == Response("none", <<>>, <<>>, 0, "", "", {})

\* User.objects.get(email=email, password=password) and the response of
\* login_user: 200 on exactly one row, 401 on DoesNotExist; get() raises
\* MultipleObjectsReturned, which the view does not catch, on several rows.
LoginResponseEmailOnly(rows, e, p) ==
    IF RowsWithEmail(rows, e) # {}
    THEN Response("login", e, p, 200, "success", "true", {})
    ELSE Response("login", e, p, 401, "error", "Invalid email or password", {})

LoginResponseTwoMessages(rows, e, p) ==
    IF {r \in rows : r.email = e /\ r.password = p} # {}
    THEN Response("login", e, p, 200, "success", "true", {})
    ELSE IF RowsWithEmail(rows, e) # {}
         THEN Response("login", e, p, 401, "error", "Wrong password", {})
         ELSE Response("login", e, p, 401, "error", "No such user", {})

LoginResponse(rows, e, p) ==
    LET matches == {r \in rows : r.email = e /\ r.password = p}
    IN  IF Cardinality(matches) = 1
        THEN Response("login", e, p, 200, "success", "true", {})
        ELSE IF matches = {}
             THEN Response("login", e, p, 401, "error",
                           "Invalid email or password", {})
             ELSE Response("login", e, p, 500, "MultipleObjectsReturned", "", {})

VARIABLES
    store,      \* the User table: a set of rows [id, email, password]
    pc,         \* per worker: "idle", or "validated" (between is_valid and save)
    req,        \* per worker: the validated data of the registration in hand
    last,       \* the response most recently sent
    created     \* the (email, password) pairs answered 201, in order

vars == <<store, pc, req, last, created>>

NoReq == [email |-> <<>>, password |-> <<>>]

Init ==
    /\ store = {}
    /\ pc = [w \in Workers |-> "idle"]
    /\ req = [w \in Workers |-> NoReq]
    /\ last = NoResponse
    /\ created = <<>>

\* register_user, lines 24-25 and 28: build the serializer and validate; an
\* invalid request is answered 400 with the errors, a valid one goes on to save.
RegisterValidate(w, e, p) ==
    /\ pc[w] = "idle"
    /\ LET errors == SerializerErrors(store, e, p)
       IN  IF errors = {}
           THEN /\ pc' = [pc EXCEPT ![w] = "validated"]
                /\ req' = [req EXCEPT ![w] = [email |-> e, password |-> p]]
                /\ UNCHANGED <<store, last, created>>
           ELSE /\ last' = Response("register", e, p, 400, "errors", "", errors)
                /\ UNCHANGED <<store, pc, req, created>>

\* register_user, lines 26-27: save and answer 201. An IntegrityError raised
\* by save() is not caught by the view: the request ends in a server error.
RegisterSave(w) ==
    /\ pc[w] = "validated"
    /\ LET e == req[w].email
           p == req[w].password
           saved == Save(store, e, p)
       IN  /\ store' = saved.rows
           /\ IF saved.ok
              THEN /\ last' = Response("register", e, p, 201, "message",
                                       "User registered successfully!", {})
                   /\ created' = Append(created, <<e, p>>)
              ELSE /\ last' = Response("register", e, p, 500, "IntegrityError",
                                       "", {})
                   /\ UNCHANGED created
    /\ pc' = [pc EXCEPT ![w] = "idle"]
    /\ req' = [req EXCEPT ![w] = NoReq]

\* login_user, lines 12-18: one query, one response.
LoginGetOrCreate(e, p) ==
    /\ last' = LoginResponse(store, e, p)
    /\ store' = IF {r \in store : r.email = e /\ r.password = p} = {}
                THEN store \cup {NewRow(store, e, p)}
                ELSE store
    /\ UNCHANGED <<pc, req, created>>

Login(e, p) ==
    /\ last' = LoginResponse(store, e, p)
    /\ UNCHANGED <<store, pc, req, created>>

Next ==
    \/ \E w \in Workers, e \in Emails, p \in Passwords : RegisterValidate(w, e, p)
    \/ \E w \in Workers : RegisterSave(w)
    \/ \E e \in Emails, p \in Passwords : Login(e, p)

Spec == Init /\ [][Next]_vars

----------------------------------------------------------------------------
\* Helpers of the properties below.

\* The number of 201 responses given for email e so far.
Count201(e) == Cardinality({i \in 1..Len(created) : created[i][1] = e})

\* The password has a length the User model accepts.
LengthOk(p) == Len(p) >= 1 /\ Len(p) <= MaxLength

PasswordErrorsOf(resp) == {x \in resp.body.errors : x[1] = "password"}

\* The step sends a new response, given by the named endpoint.
Answered(kind) == last' # last /\ last'.kind = kind

\* The step is a registration refused at validation (no worker moves).
Refused == Answered("register") /\ pc' = pc

\* The step is worker w passing validation, and worker w ending its save.
Passed(w) == pc[w] = "idle" /\ pc'[w] = "validated"
Saved(w) == pc[w] = "validated" /\ pc'[w] = "idle"

----------------------------------------------------------------------------
\* A registration of a valid email that is not in the store is not refused at
\* validation, and its save returns 201.
C1_RegisterStep ==
    /\ Refused => ~(IsValidEmail(last'.email) /\ ~EmailInStore(store, last'.email))
    /\ \A w \in Workers :
          (Saved(w) /\ ~EmailInStore(store, req[w].email)) => last'.status = 201

\* Every pair answered 201 logs in with 200 {success: true}.
C1_LoginAfter201 ==
    /\ \A i \in 1..Len(created) :
          LET r == LoginResponse(store, created[i][1], created[i][2])
          IN  r.status = 200 /\ r.body.key = "success" /\ r.body.text = "true"
    /\ (last.kind = "login"
        /\ \E i \in 1..Len(created) : created[i] = <<last.email, last.password>>)
          => (last.status = 200 /\ last.body.key = "success")

C1_AmendedStep ==
    /\ Refused => ~(/\ IsValidEmail(last'.email)
                    /\ LengthOk(last'.password)
                    /\ ~EmailInStore(store, last'.email))
    /\ \A w \in Workers :
          Passed(w) => last' = last /\ store' = store
    /\ \A w \in Workers :
          Saved(w)
              => /\ last'.kind = "register"
                 /\ last'.email = req[w].email
                 /\ last'.status = 201 <=> ~EmailInStore(store, req[w].email)
                 /\ last'.status = 201
                       => created' = Append(created, <<req[w].email, req[w].password>>)

C2_UniqueEmail ==
    \A r1 \in store, r2 \in store : r1.email = r2.email => r1 = r2

\* C2 witness: two registrations of one email raced (the loser has just been
\* refused by the database) and the store holds rows.
C2_Witness ==
    /\ last.kind = "register"
    /\ last.status = 500
    /\ Cardinality(RowsWithEmail(store, last.email)) = 1
    /\ Cardinality(store) = 2

\* A registration whose email is in the store never passes validation; it is
\* refused with 400 and the uniqueness error, and the store stays as it was.
C3_DuplicateStep ==
    /\ \A w \in Workers :
          Passed(w) => ~EmailInStore(store, req'[w].email)
    /\ (Refused /\ EmailInStore(store, last'.email))
          => /\ last'.status = 400
             /\ last'.body.key = "errors"
             /\ <<"email", "unique">> \in last'.body.errors
             /\ store' = store
             /\ created' = created

\* C3: register(e, p) for an email e already in the store is answered 400
\* with a validation error on the email, whatever the password, and leaves the
\* store unchanged (no row added, stored password not replaced).
C3_Duplicate == [][C3_DuplicateStep]_vars

\* C3 witness: a registration of a stored email with a password other than
\* the stored one has been refused with the uniqueness error.
C3_Witness ==
    /\ last.kind = "register"
    /\ last.status = 400
    /\ <<"email", "unique">> \in last.body.errors
    /\ LengthOk(last.password)
    /\ \E r \in store : r.email = last.email /\ r.password # last.password

\* C4: login(e, p) for a stored email e whose stored password differs from p
\* returns 401 with the "invalid credentials" error; login returns 200 only
\* when a row matches both email and password exactly.
C4_Login ==
    last.kind = "login" =>
        /\ last.status = 200
              <=> \E r \in store : r.email = last.email /\ r.password = last.password
        /\ (\E r \in store : r.email = last.email /\ r.password # last.password)
              => /\ last.status = 401
                 /\ last.body.key = "error"
                 /\ last.body.text = "Invalid email or password"

\* C4 witness: a login with a stored email and a wrong, but well-formed,
\* password has been answered.
C4_Witness ==
    /\ last.kind = "login"
    /\ LengthOk(last.password)
    /\ \E r \in store : r.email = last.email /\ r.password # last.password

\* C5: two store states that differ only in whether email e is registered give
\* the same login(e, p) response whenever p is not e's stored password.
C5_Indistinguishable ==
    \A e \in Emails, p \in Passwords :
        (~\E r \in store : r.email = e /\ r.password = p)
            => LoginResponse(store, e, p)
                 = LoginResponse(store \ RowsWithEmail(store, e), e, p)

\* C5 witness: one email is registered, another is not, and a login with the
\* unregistered one has been refused.
C5_Witness ==
    /\ last.kind = "login"
    /\ last.status = 401
    /\ IsValidEmail(last.email)
    /\ ~EmailInStore(store, last.email)
    /\ \E r \in store : r.email # last.email /\ r.password # last.password

\* C6 as stated: every register request is answered 201 {message} or
\* 400 {errors} and every login request 200 {success} or 401 {error}; no
\* request ends in any other outcome.
C6_Original ==
    /\ last.kind = "register"
          => \/ last.status = 201 /\ last.body.key = "message"
             \/ last.status = 400 /\ last.body.key = "errors"
    /\ last.kind = "login"
          => \/ last.status = 200 /\ last.body.key = "success"
             \/ last.status = 401 /\ last.body.key = "error"

\* One step keeps every row and every email's stored password.
C7_Step ==
    /\ store \subseteq store'
    /\ \A r \in store, r2 \in store' :
          r.email = r2.email => r2.password = r.password

\* C7: a User row is never updated or deleted: across every step the set of
\* rows only grows and the password stored for an email never changes.
C7_RowsOnlyGrow == [][C7_Step]_vars

\* C7 witness: a registration of a stored email with another password has been
\* answered and the stored row is still there.
C7_Witness ==
    /\ last.kind = "register"
    /\ last.status \in {400, 500}
    /\ \E r \in store : r.email = last.email /\ r.password # last.password
    /\ Len(created) >= 1
    /\ \A i \in 1..Len(created) :
          \E r \in store : r.email = created[i][1] /\ r.password = created[i][2]

C9_Race ==
    /\ \A e \in Emails :
          /\ Count201(e) <= 1
          /\ Cardinality(RowsWithEmail(store, e)) = Count201(e)
    /\ (last.kind = "register" /\ last.status = 500)
          => /\ Count201(last.email) = 1
             /\ Cardinality(RowsWithEmail(store, last.email)) = 1

\* C9 witness: both racing registrations of one email have been answered, the
\* first 201 and the second with the database's refusal.
C9_Witness ==
    /\ last.kind = "register"
    /\ last.status = 500
    /\ Len(created) = 1
    /\ created[1][1] = last.email
    /\ created[1][2] # last.password
    /\ \A w \in Workers : pc[w] = "idle"

\* A step that answers a login keeps the store and every login's outcome.
C10_Step ==
    Answered("login")
        => /\ store' = store
           /\ \A e \in Emails, p \in Passwords :
                 LoginResponse(store', e, p) = LoginResponse(store, e, p)

\* C10: login leaves the user store unchanged whether it succeeds or fails,
\* so that no login changes the outcome of any later login.
C10_LoginFrame == [][C10_Step]_vars

\* C10 witness: a login has failed against a non-empty store in which the
\* same email is registered with its correct password.
C10_Witness ==
    /\ last.kind = "login"
    /\ last.status = 401
    /\ Len(created) >= 1
    /\ \E r \in store : r.email = last.email
    /\ \A i \in 1..Len(created) :
          LoginResponse(store, created[i][1], created[i][2]).status = 200

====
